---- MODULE Spec2Model ----
(***************************************************************************)
(* Teryx (src/main.go): a command-line helper that sequences calls to the  *)
(* fossil, scp and sftp executables.  One run of the process executes one  *)
(* of the three cobra commands init, transfer or clone.                    *)
(*                                                                         *)
(* Go strings are modelled as sequences of one-character strings, so that  *)
(* strings.HasSuffix, strings.TrimSuffix, strings.SplitN and the           *)
(* path/filepath functions are computed character by character.            *)
(*                                                                         *)
(* Everything the process does that is visible from outside is appended,   *)
(* in program order, to the sequence trace: lines printed, child processes *)
(* started, directories created.  fs is the set of files and directories   *)
(* the run has produced so far.                                            *)
(***************************************************************************)
EXTENDS Integers, Sequences, FiniteSets

VARIABLES cmd, in, pc, loc, trace, exitCode, fs

vars == <<cmd, in, pc, loc, trace, exitCode, fs>>

(***************************************************************************)
(* Bounds of the input space.                                              *)
(***************************************************************************)
\* largest number of ".fossil" suffixes carried by an input repository name
MaxSuffixes == 2
\* largest number of trailing "/home" segments carried by an input URL
MaxHomes == 2
\* largest number of directory segments before the final URL path segment
MaxDirs == 1

(***************************************************************************)
(* String constants of the program.                                        *)
(***************************************************************************)
Empty == << >>
DotFossil == <<".", "f", "o", "s", "s", "i", "l">>
SlashHome == <<"/", "h", "o", "m", "e">>
DotDot == <<".", ".">>
Dot == <<".">>
Slash == <<"/">>
S_fossil == <<"f", "o", "s", "s", "i", "l">>
S_new == <<"n", "e", "w">>
S_open == <<"o", "p", "e", "n">>
S_user == <<"u", "s", "e", "r">>
S_password == <<"p", "a", "s", "s", "w", "o", "r", "d">>
S_default == <<"d", "e", "f", "a", "u", "l", "t">>
S_clone == <<"c", "l", "o", "n", "e">>
S_whoami == <<"w", "h", "o", "a", "m", "i">>
S_scp == <<"s", "c", "p">>
S_sftp == <<"s", "f", "t", "p">>
S_put == <<"p", "u", "t">>
S_fossils == <<"f", "o", "s", "s", "i", "l", "s">>
WwwData == <<"w", "w", "w", "-", "d", "a", "t", "a">>

(***************************************************************************)
(* package strings                                                         *)
(***************************************************************************)
HasSuffix(s, suffix) ==
    /\ Len(s) >= Len(suffix)
    /\ SubSeq(s, Len(s) - Len(suffix) + 1, Len(s)) = suffix

HasPrefix(s, prefix) ==
    /\ Len(s) >= Len(prefix)
    /\ SubSeq(s, 1, Len(prefix)) = prefix

TrimSuffix(s, suffix) ==
    IF HasSuffix(s, suffix) THEN SubSeq(s, 1, Len(s) - Len(suffix)) ELSE s

TrimPrefix(s, prefix) ==
    IF HasPrefix(s, prefix) THEN SubSeq(s, Len(prefix) + 1, Len(s)) ELSE s

\* 1-based index of the first c in s, 0 when there is none (Go: -1)
IndexByte(s, c) ==
    LET index[t \in Seq(STRING)] ==
            IF \E i \in 1..Len(t) : t[i] = c
            THEN CHOOSE i \in 1..Len(t) : t[i] = c /\ \A j \in 1..(i - 1) : t[j] # c
            ELSE 0
    IN  index[s]

\* 1-based index of the last c in s, 0 when there is none
LastIndexByte(s, c) ==
    LET index[t \in Seq(STRING)] ==
            IF \E i \in 1..Len(t) : t[i] = c
            THEN CHOOSE i \in 1..Len(t) : t[i] = c /\ \A j \in (i + 1)..Len(t) : t[j] # c
            ELSE 0
    IN  index[s]

\* a split that pads its result to two parts when there is no separator
SplitN_Padded(s, c, n) ==
    LET i == IndexByte(s, c) IN
    IF i = 0 THEN <<s, Empty>>
    ELSE <<SubSeq(s, 1, i - 1), SubSeq(s, i + 1, Len(s))>>

\* strings.SplitN(s, sep, n) for a one-character separator and n > 0
SplitN(s, c, n) ==
    LET genSplit[t \in Seq(STRING), m \in Nat] ==
            LET i == IndexByte(t, c) IN
            IF m = 1 \/ i = 0 THEN <<t>>
            ELSE <<SubSeq(t, 1, i - 1)>> \o genSplit[SubSeq(t, i + 1, Len(t)), m - 1]
    IN  genSplit[s, n]

\* strings.Split(s, sep) for a one-character separator
Split(s, c) ==
    LET genSplit[t \in Seq(STRING)] ==
            LET i == IndexByte(t, c) IN
            IF i = 0 THEN <<t>>
            ELSE <<SubSeq(t, 1, i - 1)>> \o genSplit[SubSeq(t, i + 1, Len(t))]
    IN  genSplit[s]

\* strings.Join(elems, sep)
JoinStrings(elems, sep) ==
    LET join[es \in Seq(Seq(STRING))] ==
            IF Len(es) = 0 THEN Empty
            ELSE IF Len(es) = 1 THEN es[1]
            ELSE es[1] \o sep \o join[Tail(es)]
    IN  join[elems]

\* strings.TrimSpace, over the white space a command's output can carry
IsSpace(c) == c \in {" ", "\n", "\t"}

TrimLeft(s) ==
    LET trim[t \in Seq(STRING)] ==
            IF Len(t) > 0 /\ IsSpace(t[1]) THEN trim[Tail(t)] ELSE t
    IN  trim[s]

TrimRight(s) ==
    LET trim[t \in Seq(STRING)] ==
            IF Len(t) > 0 /\ IsSpace(t[Len(t)])
            THEN trim[SubSeq(t, 1, Len(t) - 1)] ELSE t
    IN  trim[s]

TrimSpace(s) == TrimRight(TrimLeft(s))

\* n copies of s, one after the other
RECURSIVE Repeat(_, _)
Repeat(s, n) == IF n = 0 THEN Empty ELSE s \o Repeat(s, n - 1)

(***************************************************************************)
(* package path/filepath (Unix)                                            *)
(***************************************************************************)
\* the element stack Clean builds: "." and empty elements are dropped, ".."
\* removes the element before it, or is kept (unrooted) or dropped (rooted)
CleanElems(elems, rooted, acc) ==
    LET clean[es \in Seq(Seq(STRING)), out \in Seq(Seq(STRING))] ==
            IF Len(es) = 0 THEN out
            ELSE LET e == Head(es)
                     rest == Tail(es)
                 IN  IF e = Empty \/ e = Dot THEN clean[rest, out]
                     ELSE IF e = DotDot
                     THEN IF Len(out) > 0 /\ out[Len(out)] # DotDot
                          THEN clean[rest, SubSeq(out, 1, Len(out) - 1)]
                          ELSE IF rooted THEN clean[rest, out]
                          ELSE clean[rest, Append(out, e)]
                     ELSE clean[rest, Append(out, e)]
    IN  clean[elems, acc]

Clean(path) ==
    IF path = Empty THEN Dot
    ELSE LET rooted == path[1] = "/"
             body == JoinStrings(CleanElems(Split(path, "/"), rooted, << >>), Slash)
         IN  IF rooted THEN Slash \o body
             ELSE IF body = Empty THEN Dot ELSE body

\* filepath.Join(elems...): empty elements are ignored, the rest is cleaned
Join(elems) ==
    LET nonEmpty == SelectSeq(elems, LAMBDA e : e # Empty) IN
    IF Len(nonEmpty) = 0 THEN Empty ELSE Clean(JoinStrings(nonEmpty, Slash))

Dir(path) == Clean(SubSeq(path, 1, LastIndexByte(path, "/")))

StripTrailingSlashes(path) ==
    LET strip[p \in Seq(STRING)] ==
            IF Len(p) > 0 /\ p[Len(p)] = "/"
            THEN strip[SubSeq(p, 1, Len(p) - 1)]
            ELSE p
    IN  strip[path]

Base(path) ==
    IF path = Empty THEN Dot
    ELSE LET p == StripTrailingSlashes(path)
             q == SubSeq(p, LastIndexByte(p, "/") + 1, Len(p))
         IN  IF q = Empty THEN Slash ELSE q

(***************************************************************************)
(* Inputs: the command line of one run.                                    *)
(***************************************************************************)
RepoBases ==
    { Empty, <<"p">>, <<"s", "/", "p">>, S_fossil, <<"p", ".", "f">> }

\* repository names given to init: with no, one or several ".fossil" suffixes
RepoArgs == { b \o Repeat(DotFossil, k) : b \in RepoBases, k \in 0..MaxSuffixes }

Passwords == { Empty, <<"p", "w">> }

Users == { Empty, <<"a", "l">> }

\* what the whoami child can write to its standard output
WhoamiOutputs == { <<"b", "o", "b", "\n">>, <<" ", "r", "t", "\n">> }

\* url.URL; User == nil is HasUser = FALSE
NoURL == [Scheme |-> Empty, Opaque |-> Empty, User |-> Empty, HasUser |-> FALSE,
          Password |-> Empty, HasPassword |-> FALSE, Host |-> Empty, Path |-> Empty]

NoInput ==
    [repoArg |-> Empty, password |-> Empty, user |-> Empty,
     destination |-> Empty, remoteUser |-> Empty, fossilURL |-> Empty]

NoLocals ==
    [repoName |-> Empty, username |-> Empty, checkoutDirName |-> Empty,
     repoFilePath |-> Empty, parts |-> << >>, userHost |-> Empty,
     remotePath |-> Empty, cleanURL |-> Empty, parsedURL |-> NoURL,
     homeDir |-> Empty, urlPath |-> Empty, targetDir |-> Empty,
     authURL |-> Empty, repoBaseName |-> Empty, fossilFileName |-> Empty,
     checkoutDir |-> Empty]

InitInputs ==
    { [NoInput EXCEPT !.repoArg = r, !.password = p, !.user = u] :
        r \in RepoArgs, p \in Passwords, u \in Users }

(***************************************************************************)
(* Events of the trace.                                                    *)
(*   echo    the "Executing:" line printed for a command                   *)
(*   run     cmd.Run() / cmd.Output(): the child process is started        *)
(*   mkdir   os.MkdirAll is called                                         *)
(*   result  what the run or mkdir before it returned: tag "ok" or "err"   *)
(*   print   any other line printed; tag names the message                 *)
(***************************************************************************)
Ev(kind, tag, dir, argv, stdin) ==
    [kind |-> kind, tag |-> tag, dir |-> dir, argv |-> argv, stdin |-> stdin]

Println(tag, operands) == Ev("print", tag, Empty, operands, Empty)

Result(ok) == Ev("result", IF ok THEN "ok" ELSE "err", Empty, << >>, Empty)

\* what os.MkdirAll(path, 0755) can return: for the empty path always an
\* error (neither stat nor mkdir of "" succeeds)
MkdirOutcomes(path) == IF path = Empty THEN {FALSE} ELSE BOOLEAN

\* a file or directory on disk; path is relative to the process's working
\* directory unless it is rooted
Artifact(kind, path) == [kind |-> kind, path |-> path]

\* the path that name denotes for a child whose working directory is dir
Resolve(dir, name) == Join(<<dir, name>>)

\* os.MkdirAll(path, 0755), returning nil (ok) or an error
MkdirAll(path, ok) == << Ev("mkdir", "MkdirAll", path, << >>, Empty), Result(ok) >>

\* the command echoed only after it has run
executeCommand_EchoAfter(workingDir, commandName, args, ok) ==
    << Ev("run", "interactive", workingDir, <<commandName>> \o args, Empty),
       Result(ok),
       Ev("echo", "interactive", workingDir, <<commandName>> \o args, Empty) >>

\* executeCommand: the command is echoed, then run with the terminal
\* attached; it returns nil (ok) or an error
executeCommand(workingDir, commandName, args, ok) ==
    << Ev("echo", "interactive", workingDir, <<commandName>> \o args, Empty),
       Ev("run", "interactive", workingDir, <<commandName>> \o args, Empty),
       Result(ok) >>

\* executeCommandWithOutput: the command is echoed, then run with its output
\* captured; the captured text is returned with white space trimmed
executeCommandWithOutput(commandName, args, ok) ==
    << Ev("echo", "capture", Empty, <<commandName>> \o args, Empty),
       Ev("run", "capture", Empty, <<commandName>> \o args, Empty),
       Result(ok) >>

CapturedText(output) == TrimSpace(output)

\* a fatal log that exits with status 0
Fatal_ExitZero(tag) ==
    /\ trace' = Append(trace, Println(tag, << >>))
    /\ exitCode' = 0
    /\ pc' = "exited"

\* log.Fatal / log.Fatalf: the message is printed and the process exits 1
Fatal(tag) ==
    /\ trace' = Append(trace, Println(tag, << >>))
    /\ exitCode' = 1
    /\ pc' = "exited"

(***************************************************************************)
(* initCmd.Run                                                             *)
(***************************************************************************)
\* the password check left out
PasswordMissing_Never(password) == FALSE

\* line 98
PasswordMissing(password) == password = Empty

\* lines 94-100: the flags are read; a missing password is fatal
InitValidate ==
    /\ pc = "init_start"
    /\ IF PasswordMissing(in.password)
       THEN /\ Fatal("fatal_password_required")
            /\ UNCHANGED loc
       ELSE /\ loc' = [loc EXCEPT !.username = in.user]
            /\ pc' = "init_normalize"
            /\ UNCHANGED <<trace, exitCode>>
    /\ UNCHANGED <<cmd, in, fs>>

\* the suffix appended without looking at the name
NormalizeRepoName_Always(repoArg) == repoArg \o DotFossil

\* lines 103-107
NormalizeRepoName(repoArg) ==
    IF ~HasSuffix(repoArg, DotFossil) THEN repoArg \o DotFossil ELSE repoArg

InitNormalize ==
    /\ pc = "init_normalize"
    /\ loc' = [loc EXCEPT !.repoName = NormalizeRepoName(in.repoArg)]
    /\ trace' = IF ~HasSuffix(in.repoArg, DotFossil)
                THEN Append(trace, Println("info_appending",
                                         <<NormalizeRepoName(in.repoArg)>>))
                ELSE trace
    /\ pc' = "init_user"
    /\ UNCHANGED <<cmd, in, fs, exitCode>>

\* whoami asked whether or not --user was given
InitResolveUser_Always ==
    /\ pc = "init_user"
    /\ \/ \E output \in WhoamiOutputs :
            /\ loc' = [loc EXCEPT !.username = CapturedText(output)]
            /\ trace' = trace \o executeCommandWithOutput(S_whoami, << >>, TRUE)
                           \o <<Println("info_default_user",
                                      <<CapturedText(output)>>)>>
            /\ pc' = "init_new"
            /\ UNCHANGED exitCode
       \/ /\ trace' = trace \o executeCommandWithOutput(S_whoami, << >>, FALSE)
                           \o <<Println("fatal_whoami", << >>)>>
          /\ exitCode' = 1
          /\ pc' = "exited"
          /\ UNCHANGED loc
    /\ UNCHANGED <<cmd, in, fs>>

\* lines 110-117: whoami is asked only when --user is empty
InitResolveUser ==
    /\ pc = "init_user"
    /\ IF loc.username = Empty
       THEN \/ \E output \in WhoamiOutputs :
                /\ loc' = [loc EXCEPT !.username = CapturedText(output)]
                /\ trace' = trace \o executeCommandWithOutput(S_whoami, << >>, TRUE)
                               \o <<Println("info_default_user",
                                          <<CapturedText(output)>>)>>
                /\ pc' = "init_new"
                /\ UNCHANGED exitCode
            \/ /\ trace' = trace \o executeCommandWithOutput(S_whoami, << >>, FALSE)
                               \o <<Println("fatal_whoami", << >>)>>
                /\ exitCode' = 1
                /\ pc' = "exited"
                /\ UNCHANGED loc
       ELSE /\ pc' = "init_new"
            /\ UNCHANGED <<loc, trace, exitCode>>
    /\ UNCHANGED <<cmd, in, fs>>

\* the error of a failed command ignored: the workflow goes on at next
RunStep_NoFatal(workingDir, args, fatalTag, next) ==
    \E ok \in BOOLEAN :
        /\ trace' = trace \o executeCommand(workingDir, S_fossil, args, ok)
        /\ exitCode' = exitCode
        /\ pc' = next
        /\ fs' = fs

\* a failed command followed by the removal of what the run has created
RunStep_Rollback(workingDir, args, fatalTag, next) ==
    \E ok \in BOOLEAN :
        /\ trace' = trace \o executeCommand(workingDir, S_fossil, args, ok)
                       \o (IF ok THEN << >> ELSE <<Println(fatalTag, << >>)>>)
        /\ exitCode' = IF ok THEN exitCode ELSE 1
        /\ pc' = IF ok THEN next ELSE "exited"
        /\ fs' = IF ok THEN fs ELSE {}

\* one interactive command of a workflow: it is echoed and run; when it fails
\* the workflow logs fatally, otherwise it goes on at next
RunStep(workingDir, args, fatalTag, next) ==
    \E ok \in BOOLEAN :
        /\ trace' = trace \o executeCommand(workingDir, S_fossil, args, ok)
                       \o (IF ok THEN << >> ELSE <<Println(fatalTag, << >>)>>)
        /\ exitCode' = IF ok THEN exitCode ELSE 1
        /\ pc' = IF ok THEN next ELSE "exited"
        /\ fs' = fs

\* lines 119-126
InitNew ==
    /\ pc = "init_new"
    /\ \E ok \in BOOLEAN :
        /\ trace' = trace \o <<Println("initializing", <<loc.repoName, loc.username>>)>>
                       \o executeCommand(Empty, S_fossil, <<S_new, loc.repoName>>, ok)
                       \o (IF ok THEN << >> ELSE <<Println("fatal_new", << >>)>>)
        /\ exitCode' = IF ok THEN exitCode ELSE 1
        /\ pc' = IF ok THEN "init_mkdir" ELSE "exited"
        /\ fs' = IF ok THEN fs \cup {Artifact("file", Resolve(Empty, loc.repoName))}
                 ELSE fs
    /\ UNCHANGED <<cmd, in, loc>>

\* lines 129-132
InitMkdir ==
    /\ pc = "init_mkdir"
    /\ LET checkoutDirName == TrimSuffix(loc.repoName, DotFossil) IN
       \E ok \in MkdirOutcomes(checkoutDirName) :
        /\ loc' = [loc EXCEPT !.checkoutDirName = checkoutDirName]
        /\ trace' = trace \o MkdirAll(checkoutDirName, ok)
                       \o (IF ok THEN << >> ELSE <<Println("fatal_mkdir", << >>)>>)
        /\ exitCode' = IF ok THEN exitCode ELSE 1
        /\ pc' = IF ok THEN "init_open" ELSE "exited"
        /\ fs' = IF ok THEN fs \cup {Artifact("dir", Resolve(Empty, checkoutDirName))}
                 ELSE fs
    /\ UNCHANGED <<cmd, in>>

\* lines 135-140
InitOpen ==
    /\ pc = "init_open"
    /\ LET repoFilePath == Join(<<DotDot, loc.repoName>>) IN
        /\ loc' = [loc EXCEPT !.repoFilePath = repoFilePath]
        /\ RunStep(loc.checkoutDirName, <<S_open, repoFilePath>>,
                   "fatal_open", "init_password")
    /\ UNCHANGED <<cmd, in>>

\* lines 143-145
InitPassword ==
    /\ pc = "init_password"
    /\ RunStep(loc.checkoutDirName,
               <<S_user, S_password, loc.username, in.password>>,
               "fatal_password", "init_default")
    /\ UNCHANGED <<cmd, in, loc>>

\* lines 148-150
InitDefault ==
    /\ pc = "init_default"
    /\ RunStep(loc.checkoutDirName, <<S_user, S_default, loc.username>>,
               "fatal_default", "init_success")
    /\ UNCHANGED <<cmd, in, loc>>

\* lines 152-153: the success line; Run returns and main exits 0
InitSuccess ==
    /\ pc = "init_success"
    /\ trace' = Append(trace, Println("success", <<loc.checkoutDirName>>))
    /\ exitCode' = 0
    /\ pc' = "exited"
    /\ UNCHANGED <<cmd, in, fs, loc>>

(***************************************************************************)
(* transferCmd.Run                                                         *)
(***************************************************************************)
RepoFiles == { <<"p">> \o DotFossil, <<"d", "/", "p">> \o DotFossil }

\* --destination values: absent, user@host:path, a second ':' in the path, no
\* ':' at all (for scp a local path), an empty path, an empty user@host, a
\* path ending in '/'
Destinations ==
    { Empty,
      <<"a", "l", "@", "h", ":", "/", "s", "r", "v">>,
      <<"h", ":", "/", "a", ":", "b">>,
      <<"b", "a", "k">>,
      <<"a", "l", "@", "h", ":">>,
      <<":", "x">>,
      <<"h", ":", "/", "s", "/">> }

RemoteUsers == { WwwData, <<"n", "g">> }

TransferInputs ==
    { [NoInput EXCEPT !.repoArg = f, !.destination = d, !.remoteUser = r] :
        f \in RepoFiles, d \in Destinations, r \in RemoteUsers }

\* line 167
DestinationMissing(destination) == destination = Empty

\* lines 163-169: the flags are read; a missing destination is fatal
TransferValidate ==
    /\ pc = "tr_start"
    /\ IF DestinationMissing(in.destination)
       THEN Fatal("fatal_destination_required")
       ELSE /\ pc' = "tr_scp"
            /\ UNCHANGED <<trace, exitCode>>
    /\ UNCHANGED <<cmd, in, fs, loc>>

\* lines 171-178: scp is tried first; its failure is reported and caught
TransferScp ==
    /\ pc = "tr_scp"
    /\ \E ok \in BOOLEAN :
        /\ trace' = trace
             \o <<Println("attempting_scp", <<in.repoArg, in.destination>>)>>
             \o executeCommand(Empty, S_scp, <<in.repoArg, in.destination>>, ok)
             \o (IF ok THEN << >>
                 ELSE <<Println("warn_scp_failed", << >>),
                        Println("info_falling_back", << >>)>>)
        /\ pc' = IF ok THEN "tr_success" ELSE "tr_fallback"
    /\ UNCHANGED <<cmd, in, fs, loc, exitCode>>

\* line 182
InvalidDestination(parts) == Len(parts) # 2

\* lines 181-186: the destination is split on the first ':'
TransferSplit ==
    /\ pc = "tr_fallback"
    /\ LET parts == SplitN(in.destination, ":", 2) IN
       IF InvalidDestination(parts)
       THEN /\ Fatal("fatal_invalid_destination")
            /\ loc' = [loc EXCEPT !.parts = parts]
       ELSE /\ loc' = [loc EXCEPT !.parts = parts, !.userHost = parts[1],
                                  !.remotePath = parts[2]]
            /\ pc' = "tr_sftp"
            /\ UNCHANGED <<trace, exitCode>>
    /\ UNCHANGED <<cmd, in, fs>>

\* line 190: fmt.Sprintf("put %s %s", repoName, remotePath)
SftpCommand(repoName, remotePath) ==
    S_put \o <<" ">> \o repoName \o <<" ">> \o remotePath

\* the error of sftp ignored
TransferSftp_IgnoreError ==
    /\ pc = "tr_sftp"
    /\ LET sftpCommand == SftpCommand(in.repoArg, loc.remotePath) IN
       \E ok \in BOOLEAN :
        /\ trace' = trace
             \o <<Ev("echo", "sftp", Empty, <<S_sftp, loc.userHost>>, sftpCommand),
                  Ev("run", "sftp", Empty, <<S_sftp, loc.userHost>>, sftpCommand),
                  Result(ok)>>
        /\ pc' = "tr_success"
    /\ UNCHANGED <<cmd, in, fs, loc, exitCode>>

\* lines 190-200: sftp is started by the workflow itself, with the put line
\* on its standard input; its failure is fatal
TransferSftp ==
    /\ pc = "tr_sftp"
    /\ LET sftpCommand == SftpCommand(in.repoArg, loc.remotePath) IN
       \E ok \in BOOLEAN :
        /\ trace' = trace
             \o <<Ev("echo", "sftp", Empty, <<S_sftp, loc.userHost>>, sftpCommand),
                  Ev("run", "sftp", Empty, <<S_sftp, loc.userHost>>, sftpCommand),
                  Result(ok)>>
             \o (IF ok THEN << >> ELSE <<Println("fatal_sftp", << >>)>>)
        /\ exitCode' = IF ok THEN exitCode ELSE 1
        /\ pc' = IF ok THEN "tr_success" ELSE "exited"
    /\ UNCHANGED <<cmd, in, fs, loc>>

\* lines 203-209: the success marker and the head of the remediation block
TransferSuccess ==
    /\ pc = "tr_success"
    /\ trace' = trace \o <<Println("success", << >>),
                           Println("post_transfer_notice", <<in.remoteUser>>)>>
    /\ pc' = "tr_remediation"
    /\ UNCHANGED <<cmd, in, fs, loc, exitCode>>

\* the ownership given to the user alone, without the group
RemediationCommand_NoGroup(userHost, remoteUser, remotePath) ==
    <<"s", "s", "h", " ", "-", "t", " ">> \o userHost
      \o <<" ", "\"", "s", "u", "d", "o", " ", "c", "h", "o", "w", "n", " ">>
      \o remoteUser \o <<" ">> \o remotePath
      \o <<" ", "&", "&", " ", "s", "u", "d", "o", " ", "c", "h", "m", "o", "d",
           " ", "6", "6", "4", " ">>
      \o remotePath \o <<"\"">>

\* line 217: the ssh command line that is printed
RemediationCommand(userHost, remoteUser, remotePath) ==
    <<"s", "s", "h", " ", "-", "t", " ">> \o userHost
      \o <<" ", "\"", "s", "u", "d", "o", " ", "c", "h", "o", "w", "n", " ">>
      \o remoteUser \o <<":">> \o remoteUser \o <<" ">> \o remotePath
      \o <<" ", "&", "&", " ", "s", "u", "d", "o", " ", "c", "h", "m", "o", "d",
           " ", "6", "6", "4", " ">>
      \o remotePath \o <<"\"">>

\* lines 212-218: the destination is split again; parts[1] of a destination
\* without ':' is an index out of range, a run-time panic (exit status 2)
TransferRemediation ==
    /\ pc = "tr_remediation"
    /\ LET parts == SplitN(in.destination, ":", 2) IN
       IF Len(parts) < 2
       THEN /\ trace' = Append(trace, Println("panic_index_out_of_range", << >>))
            /\ exitCode' = 2
            /\ loc' = [loc EXCEPT !.parts = parts, !.userHost = parts[1]]
       ELSE LET userHost == parts[1]
                remotePath == Join(<<parts[2], in.repoArg>>)
            IN  /\ trace' = trace
                     \o <<Println("remediation",
                            <<RemediationCommand(userHost, in.remoteUser, remotePath)>>),
                          Println("rule", << >>)>>
                /\ exitCode' = 0
                /\ loc' = [loc EXCEPT !.parts = parts, !.userHost = userHost,
                                      !.remotePath = remotePath]
    /\ pc' = "exited"
    /\ UNCHANGED <<cmd, in, fs>>

(***************************************************************************)
(* package net/url, for raw URLs without '#', '?', '%' and '[', in lower    *)
(* case, whose characters need no escaping in a host, a path or a user     *)
(* name.                                                                   *)
(***************************************************************************)
Letters ==
    { "a", "b", "c", "d", "e", "f", "g", "h", "i", "j", "k", "l", "m",
      "n", "o", "p", "q", "r", "s", "t", "u", "v", "w", "x", "y", "z" }

Digits == { "0", "1", "2", "3", "4", "5", "6", "7", "8", "9" }

\* stringContainsCTLByte
ContainsCTLByte(s) == \E i \in 1..Len(s) : s[i] \in {"\n", "\t"}

\* getScheme, scanning from index i
GetSchemeAt(rawURL, i) ==
    LET none == [scheme |-> Empty, rest |-> rawURL, err |-> FALSE] IN
    LET scan[k \in Nat] ==
        IF k > Len(rawURL) THEN none
        ELSE LET c == rawURL[k] IN
             IF c \in Letters THEN scan[k + 1]
             ELSE IF c \in Digits \cup {"+", "-", "."}
             THEN IF k = 1 THEN none ELSE scan[k + 1]
             ELSE IF c = ":"
             THEN IF k = 1 THEN [none EXCEPT !.err = TRUE]
                  ELSE [scheme |-> SubSeq(rawURL, 1, k - 1),
                        rest |-> SubSeq(rawURL, k + 1, Len(rawURL)), err |-> FALSE]
             ELSE none
    IN  scan[i]

getScheme(rawURL) == GetSchemeAt(rawURL, 1)

\* validOptionalPort: "" or ':' followed by digits only
ValidOptionalPort(port) ==
    \/ port = Empty
    \/ /\ port[1] = ":"
       /\ \A i \in 2..Len(port) : port[i] \in Digits

\* parseHost: a port, when present, must be numeric
HostErr(host) ==
    LET i == LastIndexByte(host, ":") IN
    i # 0 /\ ~ValidOptionalPort(SubSeq(host, i, Len(host)))

\* parseAuthority: the user-info is what precedes the last '@'
parseAuthority(authority) ==
    LET i == LastIndexByte(authority, "@")
        host == SubSeq(authority, i + 1, Len(authority))
        userinfo == SubSeq(authority, 1, i - 1)
        c == IndexByte(userinfo, ":")
    IN  [err |-> HostErr(host),
         Host |-> host,
         HasUser |-> i # 0,
         User |-> IF i = 0 THEN Empty
                  ELSE IF c = 0 THEN userinfo ELSE SubSeq(userinfo, 1, c - 1),
         HasPassword |-> i # 0 /\ c # 0,
         Password |-> IF i # 0 /\ c # 0
                      THEN SubSeq(userinfo, c + 1, Len(userinfo)) ELSE Empty]

\* url.Parse: [err, url]
Parse(rawURL) ==
    LET bad == [err |-> TRUE, url |-> NoURL]
        gs == getScheme(rawURL)
        rest == gs.rest
        slash == IndexByte(rest, "/")
        segment == IF slash = 0 THEN rest ELSE SubSeq(rest, 1, slash - 1)
    IN  IF ContainsCTLByte(rawURL) THEN bad
        ELSE IF gs.err THEN bad
        ELSE IF ~HasPrefix(rest, Slash) /\ gs.scheme # Empty
        THEN [err |-> FALSE,
              url |-> [NoURL EXCEPT !.Scheme = gs.scheme, !.Opaque = rest]]
        ELSE IF ~HasPrefix(rest, Slash) /\ IndexByte(segment, ":") # 0 THEN bad
        ELSE IF HasPrefix(rest, <<"/", "/">>)
                  /\ (gs.scheme # Empty \/ ~HasPrefix(rest, <<"/", "/", "/">>))
        THEN LET r2 == SubSeq(rest, 3, Len(rest))
                 k == IndexByte(r2, "/")
                 authority == IF k = 0 THEN r2 ELSE SubSeq(r2, 1, k - 1)
                 path == IF k = 0 THEN Empty ELSE SubSeq(r2, k, Len(r2))
                 a == parseAuthority(authority)
             IN  IF a.err THEN bad
                 ELSE [err |-> FALSE,
                       url |-> [NoURL EXCEPT !.Scheme = gs.scheme, !.Host = a.Host,
                                  !.HasUser = a.HasUser, !.User = a.User,
                                  !.HasPassword = a.HasPassword,
                                  !.Password = a.Password, !.Path = path]]
        ELSE [err |-> FALSE,
              url |-> [NoURL EXCEPT !.Scheme = gs.scheme, !.Path = rest]]

\* (*URL).Hostname: the host without a valid port
Hostname(u) ==
    LET i == LastIndexByte(u.Host, ":") IN
    IF i # 0 /\ ValidOptionalPort(SubSeq(u.Host, i, Len(u.Host)))
    THEN SubSeq(u.Host, 1, i - 1) ELSE u.Host

\* url.User(username): user-info with a name and no password
WithUser(u, username) ==
    [u EXCEPT !.HasUser = TRUE, !.User = username,
              !.HasPassword = FALSE, !.Password = Empty]

\* (*Userinfo).String
UserinfoString(u) ==
    u.User \o (IF u.HasPassword THEN <<":">> \o u.Password ELSE Empty)

\* (*URL).String
URLString(u) ==
    LET scheme == IF u.Scheme # Empty THEN u.Scheme \o <<":">> ELSE Empty
        slash == IndexByte(u.Path, "/")
        segment == IF slash = 0 THEN u.Path ELSE SubSeq(u.Path, 1, slash - 1)
        auth == IF u.Scheme # Empty \/ u.Host # Empty \/ u.HasUser
                THEN (IF u.Host # Empty \/ u.Path # Empty \/ u.HasUser
                      THEN <<"/", "/">> ELSE Empty)
                     \o (IF u.HasUser THEN UserinfoString(u) \o <<"@">> ELSE Empty)
                     \o u.Host
                ELSE Empty
        sep == IF u.Path # Empty /\ u.Path[1] # "/" /\ u.Host # Empty
               THEN Slash ELSE Empty
        dotslash == IF scheme \o auth = Empty /\ IndexByte(segment, ":") # 0
                    THEN <<".", "/">> ELSE Empty
    IN  IF u.Opaque # Empty THEN scheme \o u.Opaque
        ELSE scheme \o auth \o sep \o dotslash \o u.Path

(***************************************************************************)
(* cloneCmd.Run                                                            *)
(***************************************************************************)
S_http == <<"h", "t", "t", "p", ":", "/", "/">>

Userinfos == { Empty, <<"u", "@">>, <<"u", ":", "s", "@">> }

Ports == { Empty, <<":", "8">> }

\* well-formed repository URLs, with up to MaxDirs directories before the
\* repository's segment and up to MaxHomes trailing /home segments
RepoURLs ==
    { S_http \o ui \o <<"h">> \o port \o Repeat(<<"/", "d">>, d) \o <<"/", "p">>
        \o Repeat(DotFossil, f) \o Repeat(SlashHome, k) :
        ui \in Userinfos, port \in Ports, d \in 0..MaxDirs,
        f \in 0..1, k \in 0..MaxHomes }

\* other arguments: empty, only /home, no scheme, a leading ':', an opaque
\* URL (no "//" after the scheme) without and with credentials, a control
\* character, a port that is not a number, a look-alike of /home
OddURLs ==
    { Empty,
      SlashHome,
      <<"h", "/", "p">> \o SlashHome,
      <<":", "x">>,
      <<"h", "t", "t", "p", ":", "p">>,
      <<"h", "t", "t", "p", ":", "u", ":", "s", "@", "h", "/", "p">>,
      S_http \o <<"h", "/", "p", "\n">>,
      S_http \o <<"h", ":", "x", "/", "p">>,
      S_http \o <<"h", "/", "p", "/", "h", "o", "m", "e", "y">>,
      S_http \o <<"h", "/", "p", "h", "o", "m", "e">> }

CloneInputs == { [NoInput EXCEPT !.fossilURL = u] : u \in RepoURLs \cup OddURLs }

\* what user.Current() can return
CurrentUsers ==
    { [HomeDir |-> <<"/", "h", "/", "b">>, Username |-> <<"b">>],
      [HomeDir |-> <<"/", "r">>, Username |-> <<"r", "t">>] }

\* every trailing /home removed, not only the last one
RECURSIVE CleanURL_AllHomes(_)
CleanURL_AllHomes(fossilURL) ==
    IF HasSuffix(fossilURL, SlashHome)
    THEN CleanURL_AllHomes(SubSeq(fossilURL, 1, Len(fossilURL) - Len(SlashHome)))
    ELSE fossilURL

\* line 232
CleanURL(fossilURL) == TrimSuffix(fossilURL, SlashHome)

\* lines 228-234
CloneTrim ==
    /\ pc = "cl_start"
    /\ loc' = [loc EXCEPT !.cleanURL = CleanURL(in.fossilURL)]
    /\ trace' = Append(trace, Println("cloning", <<CleanURL(in.fossilURL)>>))
    /\ pc' = "cl_parse"
    /\ UNCHANGED <<cmd, in, fs, exitCode>>

\* the error of url.Parse ignored
CloneParse_IgnoreError ==
    /\ pc = "cl_parse"
    /\ loc' = [loc EXCEPT !.parsedURL = Parse(loc.cleanURL).url]
    /\ pc' = "cl_user"
    /\ UNCHANGED <<cmd, in, fs, trace, exitCode>>

\* lines 237-240
CloneParse ==
    /\ pc = "cl_parse"
    /\ LET r == Parse(loc.cleanURL) IN
       IF r.err
       THEN /\ Fatal("fatal_invalid_url")
            /\ UNCHANGED loc
       ELSE /\ loc' = [loc EXCEPT !.parsedURL = r.url]
            /\ pc' = "cl_user"
            /\ UNCHANGED <<trace, exitCode>>
    /\ UNCHANGED <<cmd, in, fs>>

\* lines 243-248
CloneUser ==
    /\ pc = "cl_user"
    /\ \/ \E currentUser \in CurrentUsers :
            /\ loc' = [loc EXCEPT !.homeDir = currentUser.HomeDir,
                                  !.username = currentUser.Username]
            /\ pc' = "cl_target"
            /\ UNCHANGED <<trace, exitCode>>
       \/ /\ Fatal("fatal_current_user")
          /\ UNCHANGED loc
    /\ UNCHANGED <<cmd, in, fs>>

\* the whole URL path used instead of its directory
TargetDir_FullPath(homeDir, u) ==
    Join(<<homeDir, S_fossils, Hostname(u), TrimPrefix(u.Path, Slash)>>)

\* lines 251-253
TargetDir(homeDir, u) ==
    Join(<<homeDir, S_fossils, Hostname(u), Dir(TrimPrefix(u.Path, Slash))>>)

\* lines 251-258
CloneTargetDir ==
    /\ pc = "cl_target"
    /\ LET urlPath == TrimPrefix(loc.parsedURL.Path, Slash)
           targetDir == TargetDir(loc.homeDir, loc.parsedURL)
       IN  \E ok \in MkdirOutcomes(targetDir) :
            /\ loc' = [loc EXCEPT !.urlPath = urlPath, !.targetDir = targetDir]
            /\ trace' = trace \o <<Println("info_target_dir", <<targetDir>>)>>
                           \o MkdirAll(targetDir, ok)
                           \o (IF ok THEN << >>
                               ELSE <<Println("fatal_target_dir", << >>)>>)
            /\ exitCode' = IF ok THEN exitCode ELSE 1
            /\ pc' = IF ok THEN "cl_clone" ELSE "exited"
            /\ fs' = IF ok THEN fs \cup {Artifact("dir", Resolve(Empty, targetDir))}
                     ELSE fs
    /\ UNCHANGED <<cmd, in>>

\* line 265
RepoBaseName(urlPath) == TrimSuffix(Base(urlPath), DotFossil)

\* lines 261-271
CloneClone ==
    /\ pc = "cl_clone"
    /\ LET withUser == WithUser(loc.parsedURL, loc.username)
           authURL == URLString(withUser)
           repoBaseName == RepoBaseName(loc.urlPath)
           fossilFileName == repoBaseName \o DotFossil
       IN  /\ loc' = [loc EXCEPT !.parsedURL = withUser, !.authURL = authURL,
                                  !.repoBaseName = repoBaseName,
                                  !.fossilFileName = fossilFileName]
           /\ \E ok \in BOOLEAN :
                /\ trace' = trace
                     \o executeCommand(loc.targetDir, S_fossil,
                                       <<S_clone, authURL, fossilFileName>>, ok)
                     \o (IF ok THEN << >> ELSE <<Println("fatal_clone", << >>)>>)
                /\ exitCode' = IF ok THEN exitCode ELSE 1
                /\ pc' = IF ok THEN "cl_mkdir" ELSE "exited"
                /\ fs' = IF ok
                         THEN fs \cup {Artifact("file",
                                         Resolve(loc.targetDir, fossilFileName))}
                         ELSE fs
    /\ UNCHANGED <<cmd, in>>

\* lines 274-277
CloneMkdir ==
    /\ pc = "cl_mkdir"
    /\ LET checkoutDir == Join(<<loc.targetDir, loc.repoBaseName>>) IN
       \E ok \in MkdirOutcomes(checkoutDir) :
        /\ loc' = [loc EXCEPT !.checkoutDir = checkoutDir]
        /\ trace' = trace \o MkdirAll(checkoutDir, ok)
                       \o (IF ok THEN << >>
                           ELSE <<Println("fatal_checkout_dir", << >>)>>)
        /\ exitCode' = IF ok THEN exitCode ELSE 1
        /\ pc' = IF ok THEN "cl_open" ELSE "exited"
        /\ fs' = IF ok THEN fs \cup {Artifact("dir", Resolve(Empty, checkoutDir))}
                 ELSE fs
    /\ UNCHANGED <<cmd, in>>

\* lines 280-283
CloneOpen ==
    /\ pc = "cl_open"
    /\ LET repoFilePath == Join(<<DotDot, loc.fossilFileName>>) IN
        /\ loc' = [loc EXCEPT !.repoFilePath = repoFilePath]
        /\ RunStep(loc.checkoutDir, <<S_open, repoFilePath>>,
                   "fatal_open", "cl_success")
    /\ UNCHANGED <<cmd, in>>

\* line 285: the success line; Run returns and main exits 0
CloneSuccess ==
    /\ pc = "cl_success"
    /\ trace' = Append(trace, Println("success", <<loc.checkoutDir>>))
    /\ exitCode' = 0
    /\ pc' = "exited"
    /\ UNCHANGED <<cmd, in, fs, loc>>

(***************************************************************************)
(* The process.                                                            *)
(***************************************************************************)
Init ==
    /\ \/ cmd = "init" /\ in \in InitInputs /\ pc = "init_start"
       \/ cmd = "transfer" /\ in \in TransferInputs /\ pc = "tr_start"
       \/ cmd = "clone" /\ in \in CloneInputs /\ pc = "cl_start"
    /\ loc = NoLocals
    /\ trace = << >>
    /\ exitCode = -1
    /\ fs = {}

Next ==
    \/ InitValidate
    \/ InitNormalize
    \/ InitResolveUser
    \/ InitNew
    \/ InitMkdir
    \/ InitOpen
    \/ InitPassword
    \/ InitDefault
    \/ InitSuccess
    \/ TransferValidate
    \/ TransferScp
    \/ TransferSplit
    \/ TransferSftp
    \/ TransferSuccess
    \/ TransferRemediation
    \/ CloneTrim
    \/ CloneParse
    \/ CloneUser
    \/ CloneTargetDir
    \/ CloneClone
    \/ CloneMkdir
    \/ CloneOpen
    \/ CloneSuccess

Spec == Init /\ [][Next]_vars

\* the process is scheduled until it exits, and every child it waits for
\* returns (each step of Next contains the child's exit)
FairSpec == Spec /\ WF_vars(Next)

(***************************************************************************)
(* Reading the trace.                                                      *)
(***************************************************************************)
Idx == 1..Len(trace)

Exited == pc = "exited"

\* the i-th event starts the program prog as a child process
IsRun(i, prog) == trace[i].kind = "run" /\ trace[i].argv[1] = prog

\* the i-th event is an external step: a child process or a directory creation
IsAttempt(i) == trace[i].kind \in {"run", "mkdir"}

\* the external step at i returned an error / returned without error
Failed(i) == IsAttempt(i) /\ trace[i + 1].tag = "err"
Succeeded(i) == IsAttempt(i) /\ trace[i + 1].tag = "ok"

RunsOf(prog) == { i \in Idx : IsRun(i, prog) }

Printed(tag) == \E i \in Idx : trace[i].kind = "print" /\ trace[i].tag = tag

ScpFailed == \E i \in Idx : IsRun(i, S_scp) /\ Failed(i)
ScpSucceeded == \E i \in Idx : IsRun(i, S_scp) /\ Succeeded(i)
SftpSucceeded == \E i \in Idx : IsRun(i, S_sftp) /\ Succeeded(i)

\* the file was delivered, by scp or, after scp failed, by sftp
Delivered == ScpSucceeded \/ (ScpFailed /\ SftpSucceeded)

HasColon(s) == \E i \in 1..Len(s) : s[i] = ":"

(***************************************************************************)
(* Claims.                                                                 *)
(***************************************************************************)
\* C1: every transfer run with a non-empty destination whose delivery
\* succeeded (by scp, or by sftp after scp failed) has printed the
\* remediation command by the time the process has ended, whatever the
\* shape of the destination.
C1_RemediationPrintedOnSuccess ==
    (cmd = "transfer" /\ in.destination # Empty /\ Delivered /\ Exited)
        => Printed("remediation")

\* C2: a transfer destination that does not split into two parts on the
\* first ':' halts the run before any child process is started.
C2_MalformedDestinationNoExternalCall ==
    (cmd = "transfer" /\ ~HasColon(in.destination))
        => \A i \in Idx : trace[i].kind # "run"

\* C3: init without --password starts no child process (neither whoami nor
\* fossil) and creates no directory, transfer without --destination starts
\* neither scp nor sftp, and both runs end fatally.
C3_MissingFlagNoExternalCall ==
    (\/ cmd = "init" /\ in.password = Empty
     \/ cmd = "transfer" /\ in.destination = Empty)
        => /\ \A i \in Idx : ~IsAttempt(i)
           /\ pc \in {"init_start", "tr_start", "exited"}
           /\ Exited => exitCode = 1

\* C3 witness: an init run without --password and without --user (so that
\* whoami would have been the first child) has ended.
C3_Witness ==
    /\ cmd = "init" /\ in.password = Empty /\ in.user = Empty
    /\ Exited /\ Printed("fatal_password_required")

\* C4: in every transfer run in which scp failed, exactly one sftp child is
\* started by the time the process has ended, whatever the destination.
C4_ExactlyOneFallback ==
    (cmd = "transfer" /\ ScpFailed)
        => /\ Cardinality(RunsOf(S_sftp)) <= 1
           /\ Exited => Cardinality(RunsOf(S_sftp)) = 1

\* C5: for a destination without ':', once scp has failed the run never
\* starts sftp, prints neither the success marker nor the remediation
\* command, and ends fatally on the destination check.
C5_NoColonFallbackFatal ==
    (cmd = "transfer" /\ ~HasColon(in.destination) /\ ScpFailed)
        => /\ RunsOf(S_sftp) = {}
           /\ ~Printed("success") /\ ~Printed("remediation")
           /\ pc \in {"tr_fallback", "exited"}
           /\ Exited => exitCode = 1 /\ Printed("fatal_invalid_destination")

\* C5 witness: a run to a destination without ':' has ended after scp failed.
C5_Witness ==
    /\ cmd = "transfer" /\ in.destination = <<"b", "a", "k">>
    /\ ScpFailed /\ Exited


\* the state of a transfer run in the terms of the workflow's state machine
Phase ==
    CASE pc = "tr_start" -> "Validating"
      [] pc = "tr_scp" -> "PrimaryAttempt"
      [] pc \in {"tr_fallback", "tr_sftp"} -> "FallbackAttempt"
      [] pc \in {"tr_success", "tr_remediation"} -> "Success"
      [] pc = "exited" /\ exitCode = 0 -> "Success"
      [] pc = "exited" /\ exitCode = 1 -> "Fatal"
      [] OTHER -> "Crashed"

AllowedTransitions ==
    { <<"Validating", "PrimaryAttempt">>, <<"Validating", "Fatal">>,
      <<"PrimaryAttempt", "Success">>, <<"PrimaryAttempt", "FallbackAttempt">>,
      <<"FallbackAttempt", "FallbackAttempt">>,
      <<"FallbackAttempt", "Success">>, <<"FallbackAttempt", "Fatal">>,
      <<"Success", "Success">> }

\* C6: every step of a transfer run is a transition of Validating ->
\* PrimaryAttempt -> {Success | FallbackAttempt -> {Success | Fatal}} (a
\* failed validation going to Fatal); scp and sftp are each started at most
\* once, sftp only after scp failed; nothing follows Success or Fatal but
\* Success itself.
C6_TransferStateMachine ==
    [][cmd = "transfer" =>
        /\ <<Phase, Phase'>> \in AllowedTransitions
        /\ (Cardinality(RunsOf(S_scp)) <= 1)'
        /\ (Cardinality(RunsOf(S_sftp)) <= 1)'
        /\ (RunsOf(S_sftp) # {} => ScpFailed)']_vars

\* the external steps of init after the user name is resolved
IsInitStep(i) == IsAttempt(i) /\ ~IsRun(i, S_whoami)

StepOf(e) ==
    CASE e.kind = "mkdir" -> "mkdir"
      [] e.kind = "run" /\ e.argv[1] = S_fossil /\ e.argv[2] = S_new -> "new"
      [] e.kind = "run" /\ e.argv[1] = S_fossil /\ e.argv[2] = S_open -> "open"
      [] e.kind = "run" /\ e.argv[1] = S_fossil /\ e.argv[2] = S_user
           /\ e.argv[3] = S_password -> "password"
      [] e.kind = "run" /\ e.argv[1] = S_fossil /\ e.argv[2] = S_user
           /\ e.argv[3] = S_default -> "default"
      [] e.kind = "run" /\ e.argv[1] = S_fossil /\ e.argv[2] = S_clone -> "clone"
      [] OTHER -> "other"

InitOrder == <<"new", "mkdir", "open", "password", "default">>

InitSteps == { i \in Idx : IsInitStep(i) }

\* C7: the external steps of init are, in this order, new, mkdir, open,
\* password, default; a step is started only when every earlier step has
\* succeeded; a failed step is the last one, the run then ends with status
\* 1, and the success line is printed only after all five have succeeded.
C7_InitStrictOrder ==
    cmd = "init" =>
        /\ Cardinality(InitSteps) <= Len(InitOrder)
        /\ \A i \in InitSteps :
              /\ StepOf(trace[i])
                   = InitOrder[Cardinality({ j \in InitSteps : j <= i })]
              /\ \A j \in InitSteps : j < i => Succeeded(j)
              /\ Failed(i) => Exited /\ exitCode = 1 /\ ~Printed("success")
        /\ Printed("success") =>
              /\ Cardinality(InitSteps) = Len(InitOrder)
              /\ \A i \in InitSteps : Succeeded(i)

\* C7 witness: init has ended on a failed open, after new and mkdir succeeded.
C7_Witness ==
    /\ cmd = "init" /\ Exited
    /\ Cardinality(InitSteps) = Cardinality({"new", "mkdir", "open"})
    /\ \E i \in InitSteps : StepOf(trace[i]) = "open" /\ Failed(i)

FatalTags ==
    { "fatal_password_required", "fatal_whoami", "fatal_new", "fatal_mkdir",
      "fatal_open", "fatal_password", "fatal_default",
      "fatal_destination_required", "fatal_invalid_destination", "fatal_sftp",
      "fatal_invalid_url", "fatal_current_user", "fatal_target_dir",
      "fatal_clone", "fatal_checkout_dir" }

\* the i-th event is a failure: an external step returned an error, or a
\* validation failed
IsFailure(i) ==
    \/ trace[i].kind = "result" /\ trace[i].tag = "err"
    \/ trace[i].kind = "print" /\ trace[i].tag \in FatalTags

\* the i-th event is the error returned by scp
IsScpFailure(i) ==
    trace[i].kind = "result" /\ trace[i].tag = "err" /\ IsRun(i - 1, S_scp)

\* C8 as stated: in every workflow no external step follows a failure, and a
\* run in which something failed ends with a non-zero status.
C8_FirstFailureFatal ==
    \A i \in Idx : IsFailure(i) =>
        /\ \A j \in Idx : j > i => ~IsAttempt(j)
        /\ Exited => exitCode # 0

\* C8 amended: every failure but that of scp is fatal: the process has ended
\* with a non-zero status and no external step follows the failure.  The
\* failure of scp is caught: the only external step that follows it is one
\* run of sftp.
C8_FailureFatalExceptPrimary ==
    \A i \in Idx : IsFailure(i) =>
        IF IsScpFailure(i)
        THEN /\ \A j \in Idx : (j > i /\ IsAttempt(j)) => IsRun(j, S_sftp)
             /\ Cardinality(RunsOf(S_sftp)) <= 1
        ELSE /\ \A j \in Idx : j > i => ~IsAttempt(j)
             /\ Exited /\ exitCode # 0

\* C8 witness: a transfer has ended fatally on the failure of sftp, which
\* was run after scp failed.
C8_Witness ==
    /\ cmd = "transfer" /\ Exited /\ exitCode = 1
    /\ ScpFailed
    /\ \E i \in Idx : IsRun(i, S_sftp) /\ Failed(i)

\* C9: once init has normalized the name, a name that lacked ".fossil" has
\* got exactly one, a name that had it is unchanged, normalizing the result
\* again changes nothing; the repository is created under that name and the
\* checkout directory created is that name without its last ".fossil".
C9_RepoNameNormalization ==
    (cmd = "init" /\ loc.repoName # Empty) =>
        /\ HasSuffix(in.repoArg, DotFossil) => loc.repoName = in.repoArg
        /\ ~HasSuffix(in.repoArg, DotFossil)
              => loc.repoName = in.repoArg \o DotFossil
        /\ NormalizeRepoName(loc.repoName) = loc.repoName
        /\ \A i \in Idx :
              /\ StepOf(trace[i]) = "new" => trace[i].argv[3] = loc.repoName
              /\ trace[i].kind = "mkdir"
                    => trace[i].dir \o DotFossil = loc.repoName

\* C9 witness: for the name "p.fossil.fossil" the checkout directory has
\* been created.
C9_Witness ==
    /\ cmd = "init"
    /\ in.repoArg = <<"p">> \o DotFossil \o DotFossil
    /\ \E i \in Idx : trace[i].kind = "mkdir" /\ Succeeded(i)

\* the URL without one trailing "/home", computed by length
WithoutOneHome(u) ==
    IF HasSuffix(u, SlashHome) THEN SubSeq(u, 1, Len(u) - Len(SlashHome)) ELSE u

\* C10: once clone has cleaned the URL, a URL ending in "/home" has lost
\* exactly that one segment (one ending in "/home/home" still ends in
\* "/home"), any other URL is unchanged, and what is parsed is that cleaned
\* URL.
C10_StripOneHome ==
    (cmd = "clone" /\ pc # "cl_start") =>
        /\ HasSuffix(in.fossilURL, SlashHome)
              => loc.cleanURL \o SlashHome = in.fossilURL
        /\ ~HasSuffix(in.fossilURL, SlashHome) => loc.cleanURL = in.fossilURL
        /\ HasSuffix(in.fossilURL, SlashHome \o SlashHome)
              => HasSuffix(loc.cleanURL, SlashHome)
        /\ pc \in {"cl_user", "cl_target", "cl_clone"}
              => /\ ~Parse(WithoutOneHome(in.fossilURL)).err
                 /\ loc.parsedURL = Parse(WithoutOneHome(in.fossilURL)).url
        /\ Printed("fatal_invalid_url") => Parse(WithoutOneHome(in.fossilURL)).err

\* C10 witness: a URL ending in "/home/home" has been cleaned and parsed.
C10_Witness ==
    /\ cmd = "clone" /\ pc = "cl_user"
    /\ HasSuffix(in.fossilURL, SlashHome \o SlashHome)

\* the part of an "http://" URL between the scheme and the path, and the path
AuthorityOf(u) ==
    LET r == SubSeq(u, Len(S_http) + 1, Len(u))
        k == IndexByte(r, "/")
    IN  IF k = 0 THEN r ELSE SubSeq(r, 1, k - 1)

PathOf(u) ==
    LET r == SubSeq(u, Len(S_http) + 1, Len(u))
        k == IndexByte(r, "/")
    IN  IF k = 0 THEN Empty ELSE SubSeq(r, k, Len(r))

\* the host of an authority: what follows the user-info, without the port
HostOf(authority) ==
    LET h == SubSeq(authority, LastIndexByte(authority, "@") + 1, Len(authority))
        c == IndexByte(h, ":")
    IN  IF c = 0 THEN h ELSE SubSeq(h, 1, c - 1)

\* the ways of reading path as /d1/.../dn/name, with an optional ".fossil"
\* and an optional "/home" after the name; a final "/home" is always read as
\* the web interface's segment, and name is the name without ".fossil"
Readings(path) ==
    { r \in [dirs : { SubSeq(path, 1, i) : i \in 0..Len(path) },
             name : { SubSeq(path, i, j) : i \in 1..Len(path), j \in 1..Len(path) },
             sfx : { Empty, DotFossil },
             hm : { Empty, SlashHome }] :
        /\ path = r.dirs \o Slash \o r.name \o r.sfx \o r.hm
        /\ r.name # Empty
        /\ IndexByte(r.name, "/") = 0
        /\ ~HasSuffix(r.name, DotFossil)
        /\ r.hm = Empty => r.name \o r.sfx # Tail(SlashHome) }

S_ssh == <<"s", "s", "h">>

\* ssh -t <userHost> "sudo chown <owner>:<owner> <path> && sudo chmod 664 <path>"
SshLine(userHost, owner, path) ==
    S_ssh \o <<" ", "-", "t", " ">> \o userHost \o <<" ", "\"">>
      \o <<"s", "u", "d", "o", " ", "c", "h", "o", "w", "n", " ">>
      \o owner \o <<":">> \o owner \o <<" ">> \o path
      \o <<" ", "&", "&", " ">>
      \o <<"s", "u", "d", "o", " ", "c", "h", "m", "o", "d", " ", "6", "6", "4", " ">>
      \o path \o <<"\"">>

\* the destination before and after its first ':'
BeforeColon(d) == SubSeq(d, 1, IndexByte(d, ":") - 1)
AfterColon(d) == SubSeq(d, IndexByte(d, ":") + 1, Len(d))

\* the remediation lines printed so far
RemediationLines ==
    { trace[i].argv[1] : i \in { j \in Idx : trace[j].kind = "print"
                                              /\ trace[j].tag = "remediation" } }

NoSshStarted == \A i \in Idx : trace[i].kind = "run" => trace[i].argv[1] # S_ssh

\* C12 as stated: for a destination U@H:P the printed command is addressed
\* to U@H and names, for chown and for chmod, the path P/F (read as a
\* path: repeated slashes do not count), and no ssh process is started.
C12_RemediationNamesPSlashF ==
    (cmd = "transfer" /\ HasColon(in.destination)) =>
        /\ NoSshStarted
        /\ \A line \in RemediationLines :
              line = SshLine(BeforeColon(in.destination), in.remoteUser,
                             Clean(AfterColon(in.destination) \o Slash \o in.repoArg))

\* C12 amended: the path named is filepath.Join(P, F): the cleaned P/F when
\* P is not empty, and F alone, relative to the remote login directory, when
\* P is empty.
C12_RemediationNamesJoin ==
    (cmd = "transfer" /\ HasColon(in.destination)) =>
        /\ NoSshStarted
        /\ Cardinality(RemediationLines) <= 1
        /\ (Exited /\ exitCode = 0) => RemediationLines # {}
        /\ \A line \in RemediationLines :
              line = SshLine(BeforeColon(in.destination), in.remoteUser,
                             IF AfterColon(in.destination) = Empty
                             THEN Clean(in.repoArg)
                             ELSE Clean(AfterColon(in.destination) \o Slash
                                          \o in.repoArg))

\* C12 witness: the command for al@h:/srv and the default owner www-data has
\* been printed.
C12_Witness ==
    /\ cmd = "transfer"
    /\ in.destination = <<"a", "l", "@", "h", ":", "/", "s", "r", "v">>
    /\ in.remoteUser = WwwData
    /\ in.repoArg = <<"p">> \o DotFossil
    /\ SshLine(<<"a", "l", "@", "h">>, WwwData,
               <<"/", "s", "r", "v", "/", "p">> \o DotFossil) \in RemediationLines

CloneOrder == <<"mkdir", "clone", "mkdir", "open">>

CloneSteps == { i \in Idx : IsAttempt(i) }

\* C13: clone parses the URL before anything else: a URL that does not
\* parse ends the run with no directory created and no command run.  Its
\* external steps are, in this order, create target directory, fossil
\* clone, create checkout directory, fossil open, each started only when
\* every earlier one has succeeded; so after a failed target-directory
\* creation or a failed clone, no checkout directory is created and open is
\* not run.
C13_CloneStrictOrder ==
    cmd = "clone" =>
        /\ CloneSteps # {} => ~Parse(WithoutOneHome(in.fossilURL)).err
        /\ Printed("fatal_invalid_url") => CloneSteps = {} /\ exitCode = 1
        /\ Cardinality(CloneSteps) <= Len(CloneOrder)
        /\ \A i \in CloneSteps :
              LET k == Cardinality({ j \in CloneSteps : j <= i }) IN
              /\ StepOf(trace[i]) = CloneOrder[k]
              /\ k = 1 => trace[i].dir = loc.targetDir
              /\ k = Len(CloneOrder) - 1 => trace[i].dir = loc.checkoutDir
              /\ \A j \in CloneSteps : j < i => Succeeded(j)
              /\ Failed(i) => Exited /\ exitCode = 1 /\ ~Printed("success")
        /\ Printed("success") =>
              /\ Cardinality(CloneSteps) = Len(CloneOrder)
              /\ \A i \in CloneSteps : Succeeded(i)

\* C13 witness: the run has ended on a failed fossil clone, after the
\* target directory was created.
C13_Witness ==
    /\ cmd = "clone" /\ Exited
    /\ Cardinality(CloneSteps) = Cardinality({"mkdir", "clone"})
    /\ \E i \in CloneSteps : StepOf(trace[i]) = "clone" /\ Failed(i)

\* C14: the URL given to fossil clone parses to a URL whose user-info is
\* the resolved system user name, without a password, whatever the input
\* URL was.
C14_AuthURLUserinfo ==
    cmd = "clone" =>
        \A i \in Idx : StepOf(trace[i]) = "clone" =>
            LET r == Parse(trace[i].argv[3]) IN
            /\ ~r.err
            /\ r.url.HasUser /\ r.url.User = loc.username
            /\ ~r.url.HasPassword

\* the repository file that the fossil new or fossil clone at i writes
CreatedFile(i) ==
    Resolve(trace[i].dir,
            IF StepOf(trace[i]) = "new" THEN trace[i].argv[3] ELSE trace[i].argv[4])

\* C15: in init and in clone, the path given to fossil open, resolved from
\* the checkout directory in which open runs, is the file that fossil new or
\* fossil clone wrote, and the checkout directory lies in the directory of
\* that file.
C15_OpenDenotesCreatedFile ==
    cmd \in {"init", "clone"} =>
        \A i \in Idx : \A j \in Idx :
            (StepOf(trace[i]) \in {"new", "clone"} /\ StepOf(trace[j]) = "open") =>
                /\ Resolve(trace[j].dir, trace[j].argv[3]) = CreatedFile(i)
                /\ Dir(Resolve(Empty, trace[j].dir)) = Dir(CreatedFile(i))

\* what the successful steps recorded in the trace have produced
ProducedBySteps ==
    { Artifact("file", CreatedFile(i)) :
        i \in { j \in Idx : StepOf(trace[j]) \in {"new", "clone"} /\ Succeeded(j) } }
    \cup
    { Artifact("dir", Resolve(Empty, trace[i].dir)) :
        i \in { j \in Idx : trace[j].kind = "mkdir" /\ Succeeded(j) } }

\* C16: at every point of an init or clone run, also after a step has
\* failed and the run has ended, everything the earlier successful steps
\* produced (repository file, target directory, checkout directory) is
\* still there; the only children started are whoami and fossil new, clone,
\* open and user, and nothing follows a failed step but the fatal message.
C16_NoCompensation ==
    cmd \in {"init", "clone"} =>
        /\ fs = ProducedBySteps
        /\ \A i \in Idx :
              /\ trace[i].kind = "run"
                    => (IsRun(i, S_whoami) \/ StepOf(trace[i]) # "other")
              /\ Failed(i) => \A j \in Idx : j > i + 1 =>
                                 (trace[j].kind = "print" /\ trace[j].tag \in FatalTags)

\* C16 witness: init has ended on a failed fossil open, and the repository
\* file and the checkout directory created before it exist.
C16_Witness ==
    /\ cmd = "init" /\ Exited /\ exitCode = 1
    /\ in.repoArg = <<"p">>
    /\ Printed("fatal_open")
    /\ fs = { Artifact("file", <<"p">> \o DotFossil), Artifact("dir", <<"p">>) }

\* the user name init has resolved: --user, or else what whoami printed
ResolvedNames ==
    IF in.user # Empty THEN {in.user}
    ELSE { trace[i].argv[1] :
             i \in { j \in Idx : trace[j].kind = "print"
                                   /\ trace[j].tag = "info_default_user" } }

\* C17: init runs whoami exactly when --user is empty, at most once and
\* before fossil new; when whoami fails the run ends with no fossil command
\* and no directory; and the name given to fossil user password and to
\* fossil user default is the one resolved name.
C17_InitResolvesUserFirst ==
    cmd = "init" =>
        /\ Cardinality(RunsOf(S_whoami)) <= 1
        /\ RunsOf(S_whoami) # {} => in.user = Empty
        /\ (in.user = Empty /\ pc \notin {"init_start", "init_normalize", "init_user"}
              /\ in.password # Empty) => RunsOf(S_whoami) # {}
        /\ \A i \in RunsOf(S_whoami) :
              /\ \A j \in InitSteps : i < j /\ Succeeded(i)
              /\ Failed(i) => InitSteps = {} /\ Exited /\ exitCode = 1
        /\ InitSteps # {} => Cardinality(ResolvedNames) = 1
        /\ \A i \in InitSteps :
              StepOf(trace[i]) \in {"password", "default"}
                 => trace[i].argv[4] \in ResolvedNames

\* C17 witness: without --user, whoami has answered and the resolved name
\* has been given to fossil user default.
C17_Witness ==
    /\ cmd = "init" /\ in.user = Empty
    /\ \E i \in RunsOf(S_whoami) : Succeeded(i)
    /\ \E i \in InitSteps : StepOf(trace[i]) = "default"

\* C18: every child process started, by executeCommand, by
\* executeCommandWithOutput or directly (sftp), is preceded in the output
\* by the echo of that same command.
C18_EchoBeforeRun ==
    \A i \in Idx : trace[i].kind = "run" =>
        /\ i > 1
        /\ trace[i - 1].kind = "echo"
        /\ trace[i - 1].argv = trace[i].argv
        /\ trace[i - 1].dir = trace[i].dir
        /\ trace[i - 1].stdin = trace[i].stdin

\* C18 witness: the sftp fallback has been started.
C18_Witness == cmd = "transfer" /\ RunsOf(S_sftp) # {}

Runs == { i \in Idx : trace[i].kind = "run" }

\* the last child process started
LastRun == CHOOSE i \in Runs : \A j \in Runs : j <= i

\* C19: every run ends; it starts at most 5 child processes in init, 2 in
\* clone and 2 in transfer; and it ends with status 0, or prints its message
\* of success, only if the last child it started succeeded.
C19_Terminates ==
    /\ <>Exited
    /\ [](/\ cmd = "init" => Cardinality(Runs) <= 5
          /\ cmd = "clone" => Cardinality(Runs) <= 2
          /\ cmd = "transfer" => Cardinality(Runs) <= 2
          /\ ((Exited /\ exitCode = 0) \/ Printed("success"))
                => (Runs # {} /\ Succeeded(LastRun)))

\* C19 witness: init has ended with status 0 after five child processes.
C19_Witness ==
    /\ cmd = "init" /\ Exited /\ exitCode = 0
    /\ Cardinality(Runs) = Cardinality({"whoami"}) + Len(InitOrder) - 1

====
